---- MODULE Spec2Model ----
(***************************************************************************)
(* State-machine model of cmd/serve.go of ghligh: the POST /import handler *)
(* (serveImportHandler) that aggregates an exported annotation payload by  *)
(* content hash and merges it into the PDFs found under the working        *)
(* directory, and the POST /export handler (serveExportHandler) that       *)
(* collects the annotations of those PDFs.  The document library (package  *)
(* document: Open, GetAnnotsBuffer, HashDoc, Import, Save, Close) is not   *)
(* part of cmd/serve.go; its calls are modelled by their contract.         *)
(***************************************************************************)
EXTENDS Integers, Sequences, FiniteSets, TLC

VARIABLES
    conns,        \* connections being served, one handler goroutine each
    fileHash,     \* the tree under ".": path -> content hash of the PDF
    request,      \* conn -> the HTTP request [method, readable, valid, docs]
    pc,           \* conn -> position of the handler
    importedDocs, \* conn -> decoded payload ([]document.GhlighDoc)
    byHash,       \* conn -> map[string]document.AnnotsMap
    pdfs,         \* conn -> result of scanPDFs(".")
    idx,          \* conn -> position of the range loop over pdfs
    res,          \* conn -> importFileResult of the current iteration
    doc,          \* conn -> path of the document of the current iteration
    am,           \* conn -> byHash[h] of the current iteration
    imported,     \* conn -> count returned by doc.Import
    summary,      \* conn -> importSummary
    response,     \* conn -> what was written to the http.ResponseWriter
    handles,      \* open document handles, <<conn, path>>
    calls,        \* conn -> log of its calls to the document library
    disk,         \* path -> the annotations stored in the PDF file
    mem,          \* conn -> the annotations of the document it has in memory
    exportedDocs, \* conn -> the slice built by serveExportHandler
    docBuf        \* conn -> AnnotsBuffer and HashBuffer of the document it exports

vars == <<conns, fileHash, request, pc, importedDocs, byHash, pdfs, idx, res,
          doc, am, imported, summary, response, handles, calls, disk, mem,
          exportedDocs, docBuf>>

-----------------------------------------------------------------------------
(* Bounds of the model *)

\* number of PDFs under the working directory
NumFiles == 2

\* longest payload (number of document summaries in the request body)
MaxDocs == 2

-----------------------------------------------------------------------------
(* Values *)

Paths == 1..NumFiles

\* content hashes of local documents
Hashes == {"abc", "def"}

\* the trees under the working directory: a content hash for every path, the
\* first path of the walk carrying "abc" (the trees that start with "def"
\* mirror these)
Trees == {t \in [Paths -> Hashes] : t[1] = "abc"}

\* a Go map that may be nil: isNil, and the entries when it is not
NilMap == [isNil |-> TRUE, m |-> <<>>]

MkMap(f) == [isNil |-> FALSE, m |-> f]

\* a Go slice that may be nil: var s []T is nil until the first append
NilSlice == [isNil |-> TRUE, elems |-> <<>>]

\* append(s, x)
AppendSlice(s, x) == [isNil |-> FALSE, elems |-> Append(s.elems, x)]

\* the buffers of a document that has just been opened
NoBuf == [AnnotsBuffer |-> NilMap, HashBuffer |-> ""]

\* a Go error value; NoErr is nil
NoErr == "<nil>"

\* err.Error()
ErrorText(e) ==
    CASE e = "ErrOpen" -> "cannot open document"
      [] e = "ErrMerge" -> "cannot import annotations"
      [] e = "ErrSave" -> "cannot save document"
      [] e = "ErrRead" -> "unexpected EOF"
      [] e = "ErrSyntax" -> "invalid character"
      [] e = "ErrWalk" -> "no such file or directory"

\* per-page annotation mappings that occur in request bodies
PageMaps ==
    { <<>>,
      (1 :> <<"h1">>),
      (2 :> <<"h2">>) }

\* the JSON form of one document summary: the keys present and their values
WireDocs ==
    [path : {"a.pdf"}, hasHash : {TRUE}, hash : {"abc"},
     hasAnnots : {TRUE}, annots : PageMaps]
    \cup [path : {"b.pdf"}, hasHash : {TRUE}, hash : {"abc"},
          hasAnnots : {TRUE}, annots : {(1 :> <<"h2">>)}]
    \cup [path : {"a.pdf"}, hasHash : {TRUE}, hash : {"def"},
          hasAnnots : {TRUE}, annots : {(1 :> <<"h1">>)}]
    \cup [path : {"b.pdf"}, hasHash : {TRUE}, hash : {"def"},
          hasAnnots : {FALSE}, annots : {<<>>}]
    \cup [path : {"a.pdf"}, hasHash : {FALSE}, hash : {""},
          hasAnnots : {TRUE}, annots : {(1 :> <<"h1">>)}]

RECURSIVE SeqsUpTo(_, _)
SeqsUpTo(S, n) ==
    IF n = 0 THEN {<<>>}
    ELSE LET shorter == SeqsUpTo(S, n - 1)
         IN shorter \cup {Append(s, x) : s \in {t \in shorter : Len(t) = n - 1}, x \in S}


\* the HTTP requests sent to /import
Requests ==
    { [method |-> "GET", readable |-> TRUE, valid |-> TRUE, docs |-> <<>>],
      [method |-> "POST", readable |-> FALSE, valid |-> TRUE, docs |-> <<>>],
      [method |-> "POST", readable |-> TRUE, valid |-> FALSE, docs |-> <<>>] }
    \cup [method : {"POST"}, readable : {TRUE}, valid : {TRUE},
          docs : SeqsUpTo(WireDocs, MaxDocs)]

\* importFileResult{File: path}
NewResult(path) == [File |-> path, Imported |-> 0, Saved |-> FALSE, Error |-> ""]

\* importSummary{}
EmptySummary == [Files |-> <<>>, TotalImported |-> 0]

NoDoc == 0

NoResponse ==
    [status |-> 0, contentType |-> "", text |-> <<>>, hasJSON |-> FALSE,
     json |-> EmptySummary]

\* http.Error(w, msg, code)
HttpError(text, code) ==
    [status |-> code, contentType |-> "text/plain; charset=utf-8", text |-> text,
     hasJSON |-> FALSE, json |-> EmptySummary]

\* json.Encoder.Encode of a slice: a nil slice is written as null, any other
\* slice as an array of its elements
EncodeSlice(s) ==
    IF s.isNil THEN [kind |-> "null", elems |-> <<>>]
    ELSE [kind |-> "array", elems |-> s.elems]

\* writeJSON(w, status, v)
writeJSON(status, v) ==
    [status |-> status, contentType |-> "application/json", text |-> <<>>,
     hasJSON |-> TRUE, json |-> v]

\* one call to the document library, as logged
Call(c, op, path, offered, n, ok, e) ==
    [conn |-> c, op |-> op, path |-> path, am |-> offered, n |-> n, ok |-> ok,
     err |-> e]

-----------------------------------------------------------------------------
(* The pure parts of serveImportHandler *)

\* json.Unmarshal of one element into a document.GhlighDoc: a key that is
\* absent leaves the zero value ("" and a nil map); "{}" gives an empty,
\* non-nil map
Decode(w) ==
    [File |-> w.path,
     HashBuffer |-> IF w.hasHash THEN w.hash ELSE "",
     AnnotsBuffer |-> IF w.hasAnnots THEN MkMap(w.annots) ELSE NilMap]

DecodeAll(ws) == [i \in 1..Len(ws) |-> Decode(ws[i])]

\* line 110: the summaries the aggregation loop skips
SkipDoc(d) == d.HashBuffer = "" \/ d.AnnotsBuffer.isNil

\* lines 113-117 keyed by the path of the summary
KeyOf_Path(d) == d.File

\* the key under which a summary is aggregated (lines 113-117)
KeyOf(d) == d.HashBuffer

\* lines 113-118 with the new sequence put in front of the accumulated one
AggStep_Prepend(acc, d) ==
    IF SkipDoc(d) THEN acc
    ELSE LET k == KeyOf(d)
             old == IF k \in DOMAIN acc THEN acc[k] ELSE <<>>
             src == d.AnnotsBuffer.m
             new == [page \in DOMAIN old \cup DOMAIN src |->
                        (IF page \in DOMAIN src THEN src[page] ELSE <<>>)
                        \o (IF page \in DOMAIN old THEN old[page] ELSE <<>>)]
         IN [x \in DOMAIN acc \cup {k} |-> IF x = k THEN new ELSE acc[x]]

\* lines 113-118: one iteration of the aggregation loop on the map acc
AggStep(acc, d) ==
    IF SkipDoc(d) THEN acc
    ELSE LET k == KeyOf(d)
             old == IF k \in DOMAIN acc THEN acc[k] ELSE <<>>
             src == d.AnnotsBuffer.m
             new == [page \in DOMAIN old \cup DOMAIN src |->
                        (IF page \in DOMAIN old THEN old[page] ELSE <<>>)
                        \o (IF page \in DOMAIN src THEN src[page] ELSE <<>>)]
         IN [x \in DOMAIN acc \cup {k} |-> IF x = k THEN new ELSE acc[x]]

\* lines 108-119: byHash after the loop over the first n summaries
RECURSIVE AggregateUpTo(_, _)
AggregateUpTo(ds, n) ==
    IF n = 0 THEN <<>> ELSE AggStep(AggregateUpTo(ds, n - 1), ds[n])

Aggregate(ds) == AggregateUpTo(ds, Len(ds))

\* line 139 with an empty mapping where the key is missing
Lookup_NeverNil(m, k) == IF k \in DOMAIN m THEN MkMap(m[k]) ELSE MkMap(<<>>)

\* line 139: am := byHash[h], nil when the key is missing
Lookup(m, k) == IF k \in DOMAIN m THEN MkMap(m[k]) ELSE NilMap

\* the key used for the lookup of a local document (lines 138-139)
LookupKey(path, hash) == hash

\* number of annotation records in a per-page mapping
RECURSIVE SumLen(_, _)
SumLen(f, pages) ==
    IF pages = {} THEN 0
    ELSE LET p == CHOOSE x \in pages : TRUE
         IN Len(f[p]) + SumLen(f, pages \ {p})

Records(f) == SumLen(f, DOMAIN f)

\* line 154 with the comparison widened to imported >= 0
ShouldSave_Always(n) == n >= 0

\* line 154: whether the document is saved after a merge without error
ShouldSave(n) == n > 0

\* line 163 without the addition
AddTotal_Dropped(total, n) == total

\* line 163: summary.TotalImported += imported
AddTotal(total, n) == total + n

-----------------------------------------------------------------------------
(* The document library, by its contract *)

\* document.Open(path): a document or an error
OpenOutcomes == {NoErr, "ErrOpen"}

\* doc.Import(am): the number of records newly applied, at most the number
\* offered, and possibly an error
ImportOutcomes(offered) ==
    [n : 0..Records(offered), err : {NoErr, "ErrMerge"}]

\* the merge of the library when it applies only what the document does not
\* hold yet: the records of one page, in the order offered
RECURSIVE MergePage(_, _)
MergePage(old, recs) ==
    IF recs = <<>> THEN old
    ELSE MergePage(IF \E i \in 1..Len(old) : old[i] = Head(recs)
                   THEN old ELSE Append(old, Head(recs)),
                   Tail(recs))

\* the annotations of a document holding m after the merge of offered
Merge(m, offered) ==
    [page \in DOMAIN m \cup DOMAIN offered |->
        MergePage(IF page \in DOMAIN m THEN m[page] ELSE <<>>,
                  IF page \in DOMAIN offered THEN offered[page] ELSE <<>>)]

\* doc.Import(am) of that library when it succeeds: the count of the records
\* newly applied
MergeOutcomes(m, offered) ==
    {[n |-> Records(Merge(m, offered)) - Records(m), err |-> NoErr,
      mem |-> Merge(m, offered)]}

\* doc.Save(): (true, nil) or (false, error)
SaveOutcomes == {[saved |-> TRUE, err |-> NoErr], [saved |-> FALSE, err |-> "ErrSave"]}

\* scanPDFs("."): the paths in traversal order, or the walk's error
ScanOutcomes == {NoErr, "ErrWalk"}

scanPDFs == [i \in 1..NumFiles |-> i]

-----------------------------------------------------------------------------
(* Initial state: the server is listening, the requests have arrived and    *)
(* the mux has dispatched each to its handler                               *)

\* the state after construction, for the connections cs, with the tree, the
\* requests of the connections, the handlers they are dispatched to and the
\* stored annotations drawn from the given sets
InitWith(cs, trees, reqs, entries, stored) ==
    /\ conns = cs
    /\ fileHash \in trees
    /\ request \in reqs
    /\ pc \in entries
    /\ importedDocs = [c \in cs |-> <<>>]
    /\ byHash = [c \in cs |-> <<>>]
    /\ pdfs = [c \in cs |-> <<>>]
    /\ idx = [c \in cs |-> 0]
    /\ res = [c \in cs |-> NewResult(NoDoc)]
    /\ doc = [c \in cs |-> NoDoc]
    /\ am = [c \in cs |-> NilMap]
    /\ imported = [c \in cs |-> 0]
    /\ summary = [c \in cs |-> EmptySummary]
    /\ response = [c \in cs |-> NoResponse]
    /\ handles = {}
    /\ calls = [c \in cs |-> <<>>]
    /\ disk \in [Paths -> stored]
    /\ mem = [c \in cs |-> <<>>]
    /\ exportedDocs = [c \in cs |-> NilSlice]
    /\ docBuf = [c \in cs |-> NoBuf]

\* one request to /import, the documents holding no annotation yet
Init == InitWith({1}, Trees, [{1} -> Requests], [{1} -> {"start"}], {<<>>})

-----------------------------------------------------------------------------
(* serveImportHandler, one action per step *)

\* lines 91-94
CheckMethod(c) ==
    /\ pc[c] = "start"
    /\ IF request[c].method # "POST"
       THEN /\ response' = [response EXCEPT ![c] = HttpError(<<"method not allowed">>, 405)]
            /\ pc' = [pc EXCEPT ![c] = "done"]
       ELSE /\ pc' = [pc EXCEPT ![c] = "read"]
            /\ UNCHANGED response
    /\ UNCHANGED <<conns, fileHash, request, disk, mem, exportedDocs, docBuf, importedDocs, byHash, pdfs, idx, res,
                   doc, am, imported, summary, handles, calls>>

\* lines 96-100
ReadBody(c) ==
    /\ pc[c] = "read"
    /\ IF ~request[c].readable
       THEN /\ response' = [response EXCEPT ![c] = HttpError(<<ErrorText("ErrRead")>>, 400)]
            /\ pc' = [pc EXCEPT ![c] = "done"]
       ELSE /\ pc' = [pc EXCEPT ![c] = "parse"]
            /\ UNCHANGED response
    /\ UNCHANGED <<conns, fileHash, request, disk, mem, exportedDocs, docBuf, importedDocs, byHash, pdfs, idx, res,
                   doc, am, imported, summary, handles, calls>>

\* lines 102-106 with the error of json.Unmarshal ignored
Unmarshal_IgnoreError(c) ==
    /\ pc[c] = "parse"
    /\ importedDocs' = [importedDocs EXCEPT ![c] = DecodeAll(request[c].docs)]
    /\ pc' = [pc EXCEPT ![c] = "aggregate"]
    /\ UNCHANGED <<conns, fileHash, request, disk, mem, exportedDocs, docBuf, byHash, pdfs, idx, res,
                   doc, am, imported, summary, response, handles, calls>>

\* lines 102-106
Unmarshal(c) ==
    /\ pc[c] = "parse"
    /\ IF ~request[c].valid
       THEN /\ response' = [response EXCEPT ![c] =
                   HttpError(<<"invalid json", ": ", ErrorText("ErrSyntax")>>, 400)]
            /\ pc' = [pc EXCEPT ![c] = "done"]
            /\ UNCHANGED importedDocs
       ELSE /\ importedDocs' = [importedDocs EXCEPT ![c] = DecodeAll(request[c].docs)]
            /\ pc' = [pc EXCEPT ![c] = "aggregate"]
            /\ UNCHANGED response
    /\ UNCHANGED <<conns, fileHash, request, disk, mem, exportedDocs, docBuf, byHash, pdfs, idx, res,
                   doc, am, imported, summary, handles, calls>>

\* lines 108-119
AggregateDocs(c) ==
    /\ pc[c] = "aggregate"
    /\ byHash' = [byHash EXCEPT ![c] = Aggregate(importedDocs[c])]
    /\ pc' = [pc EXCEPT ![c] = "scan"]
    /\ UNCHANGED <<conns, fileHash, request, disk, mem, exportedDocs, docBuf, importedDocs, pdfs, idx, res,
                   doc, am, imported, summary, response, handles, calls>>

\* lines 121-127, the walk ending in one of the given outcomes
ScanWith(c, outcomes) ==
    /\ pc[c] = "scan"
    /\ \E e \in outcomes :
         IF e # NoErr
         THEN /\ response' = [response EXCEPT ![c] = HttpError(<<ErrorText(e)>>, 500)]
              /\ pc' = [pc EXCEPT ![c] = "done"]
              /\ UNCHANGED <<pdfs, idx, summary>>
         ELSE /\ pdfs' = [pdfs EXCEPT ![c] = scanPDFs]
              /\ idx' = [idx EXCEPT ![c] = 1]
              /\ summary' = [summary EXCEPT ![c] = EmptySummary]
              /\ pc' = [pc EXCEPT ![c] = "loop"]
              /\ UNCHANGED response
    /\ UNCHANGED <<conns, fileHash, request, disk, exportedDocs, docBuf, importedDocs, byHash, res,
                   doc, am, imported, handles, calls, mem>>

\* lines 121-127
Scan(c) == ScanWith(c, ScanOutcomes)

\* lines 128-136 with the file locked while a request has it open
OpenWith_Locked(c, outcomes) ==
    /\ pc[c] = "loop"
    /\ idx[c] <= Len(pdfs[c])
    /\ LET path == pdfs[c][idx[c]]
       IN /\ \A d \in conns \ {c} : <<d, path>> \notin handles
          /\ \E e \in outcomes :
               /\ calls' = [calls EXCEPT ![c] = Append(@, Call(c, "Open", path, NilMap, 0, e = NoErr, e))]
               /\ IF e # NoErr
                  THEN /\ res' = [res EXCEPT ![c] =
                             [NewResult(path) EXCEPT !.Error = ErrorText(e)]]
                       /\ summary' = [summary EXCEPT ![c].Files = Append(@, res'[c])]
                       /\ idx' = [idx EXCEPT ![c] = @ + 1]
                       /\ UNCHANGED <<pc, doc, handles, mem>>
                  ELSE /\ res' = [res EXCEPT ![c] = NewResult(path)]
                       /\ doc' = [doc EXCEPT ![c] = path]
                       /\ handles' = handles \cup {<<c, path>>}
                       /\ mem' = [mem EXCEPT ![c] = disk[path]]
                       /\ pc' = [pc EXCEPT ![c] = "hash"]
                       /\ UNCHANGED <<summary, idx>>
    /\ UNCHANGED <<conns, fileHash, request, disk, exportedDocs, docBuf, importedDocs, byHash, pdfs, am, imported,
                   response>>

\* lines 128-136 with a document that does not open ending the request
OpenWith_Abort(c, outcomes) ==
    /\ pc[c] = "loop"
    /\ idx[c] <= Len(pdfs[c])
    /\ LET path == pdfs[c][idx[c]]
       IN \E e \in outcomes :
            /\ calls' = [calls EXCEPT ![c] = Append(@, Call(c, "Open", path, NilMap, 0, e = NoErr, e))]
            /\ IF e # NoErr
               THEN /\ response' = [response EXCEPT ![c] = HttpError(<<ErrorText(e)>>, 500)]
                    /\ pc' = [pc EXCEPT ![c] = "done"]
                    /\ UNCHANGED <<res, summary, idx, doc, handles, mem>>
               ELSE /\ res' = [res EXCEPT ![c] = NewResult(path)]
                    /\ doc' = [doc EXCEPT ![c] = path]
                    /\ handles' = handles \cup {<<c, path>>}
                    /\ mem' = [mem EXCEPT ![c] = disk[path]]
                    /\ pc' = [pc EXCEPT ![c] = "hash"]
                    /\ UNCHANGED <<summary, idx, response>>
    /\ UNCHANGED <<conns, fileHash, request, disk, exportedDocs, docBuf, importedDocs, byHash, pdfs, am, imported>>

\* lines 128-136: the next path of the loop, and document.Open ending in one
\* of the given outcomes; the document read into memory is the one on disk
OpenWith(c, outcomes) ==
    /\ pc[c] = "loop"
    /\ idx[c] <= Len(pdfs[c])
    /\ LET path == pdfs[c][idx[c]]
       IN \E e \in outcomes :
            /\ calls' = [calls EXCEPT ![c] = Append(@, Call(c, "Open", path, NilMap, 0, e = NoErr, e))]
            /\ IF e # NoErr
               THEN /\ res' = [res EXCEPT ![c] =
                          [NewResult(path) EXCEPT !.Error = ErrorText(e)]]
                    /\ summary' = [summary EXCEPT ![c].Files = Append(@, res'[c])]
                    /\ idx' = [idx EXCEPT ![c] = @ + 1]
                    /\ UNCHANGED <<pc, doc, handles, mem>>
               ELSE /\ res' = [res EXCEPT ![c] = NewResult(path)]
                    /\ doc' = [doc EXCEPT ![c] = path]
                    /\ handles' = handles \cup {<<c, path>>}
                    /\ mem' = [mem EXCEPT ![c] = disk[path]]
                    /\ pc' = [pc EXCEPT ![c] = "hash"]
                    /\ UNCHANGED <<summary, idx>>
    /\ UNCHANGED <<conns, fileHash, request, disk, exportedDocs, docBuf, importedDocs, byHash, pdfs, am, imported,
                   response>>

\* lines 128-136
OpenDoc(c) == OpenWith(c, OpenOutcomes)

\* lines 138-140: doc.HashDoc() and the lookup
HashDoc(c) ==
    /\ pc[c] = "hash"
    /\ LET h == fileHash[doc[c]]
           found == Lookup(byHash[c], LookupKey(doc[c], h))
       IN /\ calls' = [calls EXCEPT ![c] = Append(@, Call(c, "HashDoc", doc[c], NilMap, 0, TRUE, NoErr))]
          /\ am' = [am EXCEPT ![c] = found]
          /\ pc' = [pc EXCEPT ![c] = IF found.isNil THEN "close141" ELSE "import"]
    /\ UNCHANGED <<conns, fileHash, request, disk, mem, exportedDocs, docBuf, importedDocs, byHash, pdfs, idx, res, doc,
                   imported, summary, response, handles>>

\* lines 141-142 with doc.Close() called a second time
CloseUnmatched_Twice(c) ==
    /\ pc[c] = "close141"
    /\ calls' = [calls EXCEPT ![c] =
                    Append(Append(@, Call(c, "Close", doc[c], NilMap, 0, TRUE, NoErr)),
                           Call(c, "Close", doc[c], NilMap, 0, TRUE, NoErr))]
    /\ handles' = handles \ {<<c, doc[c]>>}
    /\ idx' = [idx EXCEPT ![c] = @ + 1]
    /\ pc' = [pc EXCEPT ![c] = "loop"]
    /\ UNCHANGED <<conns, fileHash, request, disk, mem, exportedDocs, docBuf, importedDocs, byHash, pdfs, res, doc, am,
                   imported, summary, response>>

\* lines 141-142 with the outcome of the unmatched document reported
CloseUnmatched_Reported(c) ==
    /\ pc[c] = "close141"
    /\ calls' = [calls EXCEPT ![c] = Append(@, Call(c, "Close", doc[c], NilMap, 0, TRUE, NoErr))]
    /\ handles' = handles \ {<<c, doc[c]>>}
    /\ summary' = [summary EXCEPT ![c].Files = Append(@, res[c])]
    /\ idx' = [idx EXCEPT ![c] = @ + 1]
    /\ pc' = [pc EXCEPT ![c] = "loop"]
    /\ UNCHANGED <<conns, fileHash, request, disk, mem, exportedDocs, docBuf, importedDocs, byHash, pdfs, res, doc, am,
                   imported, response>>

\* lines 141-142: no aggregated entry for the hash
CloseUnmatched(c) ==
    /\ pc[c] = "close141"
    /\ calls' = [calls EXCEPT ![c] = Append(@, Call(c, "Close", doc[c], NilMap, 0, TRUE, NoErr))]
    /\ handles' = handles \ {<<c, doc[c]>>}
    /\ idx' = [idx EXCEPT ![c] = @ + 1]
    /\ pc' = [pc EXCEPT ![c] = "loop"]
    /\ UNCHANGED <<conns, fileHash, request, disk, mem, exportedDocs, docBuf, importedDocs, byHash, pdfs, res, doc, am,
                   imported, summary, response>>

\* lines 145-148 and 154 with the count of a failed merge not recorded
ImportWith_ZeroOnError(c, outcomes) ==
    /\ pc[c] = "import"
    /\ \E o \in outcomes :
         /\ calls' = [calls EXCEPT ![c] = Append(@, Call(c, "Import", doc[c], am[c], o.n, o.err = NoErr, o.err))]
         /\ imported' = [imported EXCEPT ![c] = o.n]
         /\ mem' = [mem EXCEPT ![c] = o.mem]
         /\ IF o.err # NoErr
            THEN /\ res' = [res EXCEPT ![c].Error = ErrorText(o.err)]
                 /\ pc' = [pc EXCEPT ![c] = "close149"]
            ELSE /\ res' = [res EXCEPT ![c].Imported = o.n]
                 /\ pc' = [pc EXCEPT ![c] = IF ShouldSave(o.n) THEN "save" ELSE "close162"]
    /\ UNCHANGED <<conns, fileHash, request, disk, exportedDocs, docBuf, importedDocs, byHash, pdfs, idx, doc, am,
                   summary, response, handles>>

\* lines 145-148 and 154: doc.Import(am) ending in one of the given outcomes
\* (the count, the error and the annotations of the document afterwards)
ImportWith(c, outcomes) ==
    /\ pc[c] = "import"
    /\ \E o \in outcomes :
         /\ calls' = [calls EXCEPT ![c] = Append(@, Call(c, "Import", doc[c], am[c], o.n, o.err = NoErr, o.err))]
         /\ imported' = [imported EXCEPT ![c] = o.n]
         /\ mem' = [mem EXCEPT ![c] = o.mem]
         /\ IF o.err # NoErr
            THEN /\ res' = [res EXCEPT ![c].Imported = o.n, ![c].Error = ErrorText(o.err)]
                 /\ pc' = [pc EXCEPT ![c] = "close149"]
            ELSE /\ res' = [res EXCEPT ![c].Imported = o.n]
                 /\ pc' = [pc EXCEPT ![c] = IF ShouldSave(o.n) THEN "save" ELSE "close162"]
    /\ UNCHANGED <<conns, fileHash, request, disk, exportedDocs, docBuf, importedDocs, byHash, pdfs, idx, doc, am,
                   summary, response, handles>>

\* lines 145-148 and 154, the library merging by any policy: the content of
\* the document is left out, only the count and the error are kept
ImportDoc(c) ==
    ImportWith(c, {[n |-> o.n, err |-> o.err, mem |-> mem[c]] :
                      o \in ImportOutcomes(am[c].m)})

\* lines 149-151 without doc.Close()
CloseFailed_Leak(c) ==
    /\ pc[c] = "close149"
    /\ summary' = [summary EXCEPT ![c].Files = Append(@, res[c])]
    /\ idx' = [idx EXCEPT ![c] = @ + 1]
    /\ pc' = [pc EXCEPT ![c] = "loop"]
    /\ UNCHANGED <<conns, fileHash, request, disk, mem, exportedDocs, docBuf, importedDocs, byHash, pdfs, res, doc, am,
                   imported, response, handles, calls>>

\* lines 149-151 with the count added to the total
CloseFailed_Counted(c) ==
    /\ pc[c] = "close149"
    /\ calls' = [calls EXCEPT ![c] = Append(@, Call(c, "Close", doc[c], NilMap, 0, TRUE, NoErr))]
    /\ handles' = handles \ {<<c, doc[c]>>}
    /\ summary' = [summary EXCEPT ![c].TotalImported = AddTotal(@, imported[c]),
                                  ![c].Files = Append(@, res[c])]
    /\ idx' = [idx EXCEPT ![c] = @ + 1]
    /\ pc' = [pc EXCEPT ![c] = "loop"]
    /\ UNCHANGED <<conns, fileHash, request, disk, mem, exportedDocs, docBuf, importedDocs, byHash, pdfs, res, doc, am,
                   imported, response>>

\* lines 149-151: the merge failed
CloseFailed(c) ==
    /\ pc[c] = "close149"
    /\ calls' = [calls EXCEPT ![c] = Append(@, Call(c, "Close", doc[c], NilMap, 0, TRUE, NoErr))]
    /\ handles' = handles \ {<<c, doc[c]>>}
    /\ summary' = [summary EXCEPT ![c].Files = Append(@, res[c])]
    /\ idx' = [idx EXCEPT ![c] = @ + 1]
    /\ pc' = [pc EXCEPT ![c] = "loop"]
    /\ UNCHANGED <<conns, fileHash, request, disk, mem, exportedDocs, docBuf, importedDocs, byHash, pdfs, res, doc, am,
                   imported, response>>

\* lines 155-159: doc.Save() ending in one of the given outcomes; a save that
\* succeeds writes the document in memory to the file
SaveWith(c, outcomes) ==
    /\ pc[c] = "save"
    /\ \E o \in outcomes :
         /\ calls' = [calls EXCEPT ![c] = Append(@, Call(c, "Save", doc[c], NilMap, 0, o.saved, o.err))]
         /\ res' = [res EXCEPT ![c].Saved = o.saved,
                               ![c].Error = IF o.err # NoErr THEN ErrorText(o.err) ELSE @]
         /\ disk' = IF o.saved THEN [disk EXCEPT ![doc[c]] = mem[c]] ELSE disk
    /\ pc' = [pc EXCEPT ![c] = "close162"]
    /\ UNCHANGED <<conns, fileHash, request, mem, exportedDocs, docBuf, importedDocs, byHash, pdfs, idx, doc, am,
                   imported, summary, response, handles>>

\* lines 155-159
SaveDoc(c) == SaveWith(c, SaveOutcomes)

\* lines 162-164 with the count added only when the document was saved
CloseMerged_SavedOnly(c) ==
    /\ pc[c] = "close162"
    /\ calls' = [calls EXCEPT ![c] = Append(@, Call(c, "Close", doc[c], NilMap, 0, TRUE, NoErr))]
    /\ handles' = handles \ {<<c, doc[c]>>}
    /\ summary' = [summary EXCEPT
                      ![c].TotalImported = IF res[c].Saved THEN AddTotal(@, imported[c]) ELSE @,
                      ![c].Files = Append(@, res[c])]
    /\ idx' = [idx EXCEPT ![c] = @ + 1]
    /\ pc' = [pc EXCEPT ![c] = "loop"]
    /\ UNCHANGED <<conns, fileHash, request, disk, mem, exportedDocs, docBuf, importedDocs, byHash, pdfs, res, doc, am,
                   imported, response>>

\* lines 162-164: the end of the loop body
CloseMerged(c) ==
    /\ pc[c] = "close162"
    /\ calls' = [calls EXCEPT ![c] = Append(@, Call(c, "Close", doc[c], NilMap, 0, TRUE, NoErr))]
    /\ handles' = handles \ {<<c, doc[c]>>}
    /\ summary' = [summary EXCEPT ![c].TotalImported = AddTotal(@, imported[c]),
                                  ![c].Files = Append(@, res[c])]
    /\ idx' = [idx EXCEPT ![c] = @ + 1]
    /\ pc' = [pc EXCEPT ![c] = "loop"]
    /\ UNCHANGED <<conns, fileHash, request, disk, mem, exportedDocs, docBuf, importedDocs, byHash, pdfs, res, doc, am,
                   imported, response>>

\* line 167: the loop is over
WriteSummary(c) ==
    /\ pc[c] = "loop"
    /\ idx[c] > Len(pdfs[c])
    /\ response' = [response EXCEPT ![c] = writeJSON(200, summary[c])]
    /\ pc' = [pc EXCEPT ![c] = "done"]
    /\ UNCHANGED <<conns, fileHash, request, disk, mem, exportedDocs, docBuf, importedDocs, byHash, pdfs, idx, res, doc,
                   am, imported, summary, handles, calls>>

Next ==
    \/ \E c \in conns : CheckMethod(c)
    \/ \E c \in conns : ReadBody(c)
    \/ \E c \in conns : Unmarshal(c)
    \/ \E c \in conns : AggregateDocs(c)
    \/ \E c \in conns : Scan(c)
    \/ \E c \in conns : OpenDoc(c)
    \/ \E c \in conns : HashDoc(c)
    \/ \E c \in conns : CloseUnmatched(c)
    \/ \E c \in conns : ImportDoc(c)
    \/ \E c \in conns : CloseFailed(c)
    \/ \E c \in conns : SaveDoc(c)
    \/ \E c \in conns : CloseMerged(c)
    \/ \E c \in conns : WriteSummary(c)

Spec == Init /\ [][Next]_vars

\* the same handler and faults, for the properties of the loop over the files
SpecBatch == Init /\ [][Next]_vars

-----------------------------------------------------------------------------
(* serveExportHandler, one action per step *)

\* the requests sent to /export: the handler reads the method only
ExportRequests == {r \in Requests : r.readable /\ r.valid /\ r.docs = <<>>}

\* the annotations a PDF of the tree may hold
Stored == {<<>>, (1 :> <<"h1">>)}

\* lines 63-66
ExportCheckMethod(c) ==
    /\ pc[c] = "x_start"
    /\ IF request[c].method # "POST"
       THEN /\ response' = [response EXCEPT ![c] = HttpError(<<"method not allowed">>, 405)]
            /\ pc' = [pc EXCEPT ![c] = "done"]
       ELSE /\ pc' = [pc EXCEPT ![c] = "x_scan"]
            /\ UNCHANGED response
    /\ UNCHANGED <<conns, fileHash, request, disk, mem, exportedDocs, docBuf, importedDocs, byHash,
                   pdfs, idx, res, doc, am, imported, summary, handles, calls>>

\* lines 68-74: scanPDFs(".") and the declaration of exportedDocs
ExportScan(c) ==
    /\ pc[c] = "x_scan"
    /\ \E e \in ScanOutcomes :
         IF e # NoErr
         THEN /\ response' = [response EXCEPT ![c] = HttpError(<<ErrorText(e)>>, 500)]
              /\ pc' = [pc EXCEPT ![c] = "done"]
              /\ UNCHANGED <<pdfs, idx, exportedDocs>>
         ELSE /\ pdfs' = [pdfs EXCEPT ![c] = scanPDFs]
              /\ idx' = [idx EXCEPT ![c] = 1]
              /\ exportedDocs' = [exportedDocs EXCEPT ![c] = NilSlice]
              /\ pc' = [pc EXCEPT ![c] = "x_loop"]
              /\ UNCHANGED response
    /\ UNCHANGED <<conns, fileHash, request, disk, mem, docBuf, importedDocs, byHash, res, doc, am,
                   imported, summary, handles, calls>>

\* lines 75-80 with a document that does not open ending the request
ExportOpen_Abort(c) ==
    /\ pc[c] = "x_loop"
    /\ idx[c] <= Len(pdfs[c])
    /\ LET path == pdfs[c][idx[c]]
       IN \E e \in OpenOutcomes :
            /\ calls' = [calls EXCEPT ![c] = Append(@, Call(c, "Open", path, NilMap, 0, e = NoErr, e))]
            /\ IF e # NoErr
               THEN /\ response' = [response EXCEPT ![c] = HttpError(<<ErrorText(e)>>, 500)]
                    /\ pc' = [pc EXCEPT ![c] = "done"]
                    /\ UNCHANGED <<idx, doc, handles, mem, docBuf>>
               ELSE /\ doc' = [doc EXCEPT ![c] = path]
                    /\ handles' = handles \cup {<<c, path>>}
                    /\ mem' = [mem EXCEPT ![c] = disk[path]]
                    /\ docBuf' = [docBuf EXCEPT ![c] = NoBuf]
                    /\ pc' = [pc EXCEPT ![c] = "x_annots"]
                    /\ UNCHANGED <<idx, response>>
    /\ UNCHANGED <<conns, fileHash, request, disk, exportedDocs, importedDocs, byHash, pdfs, res, am,
                   imported, summary>>

\* lines 75-80: the next path of the loop, and document.Open; a document
\* that does not open is skipped
ExportOpen(c) ==
    /\ pc[c] = "x_loop"
    /\ idx[c] <= Len(pdfs[c])
    /\ LET path == pdfs[c][idx[c]]
       IN \E e \in OpenOutcomes :
            /\ calls' = [calls EXCEPT ![c] = Append(@, Call(c, "Open", path, NilMap, 0, e = NoErr, e))]
            /\ IF e # NoErr
               THEN /\ idx' = [idx EXCEPT ![c] = @ + 1]
                    /\ UNCHANGED <<pc, doc, handles, mem, docBuf>>
               ELSE /\ doc' = [doc EXCEPT ![c] = path]
                    /\ handles' = handles \cup {<<c, path>>}
                    /\ mem' = [mem EXCEPT ![c] = disk[path]]
                    /\ docBuf' = [docBuf EXCEPT ![c] = NoBuf]
                    /\ pc' = [pc EXCEPT ![c] = "x_annots"]
                    /\ UNCHANGED idx
    /\ UNCHANGED <<conns, fileHash, request, disk, exportedDocs, importedDocs, byHash, pdfs, res, am,
                   imported, summary, response>>

\* line 81: doc.AnnotsBuffer = doc.GetAnnotsBuffer()
ExportGetAnnots(c) ==
    /\ pc[c] = "x_annots"
    /\ calls' = [calls EXCEPT ![c] =
                    Append(@, Call(c, "GetAnnotsBuffer", doc[c], NilMap, 0, TRUE, NoErr))]
    /\ docBuf' = [docBuf EXCEPT ![c].AnnotsBuffer = MkMap(mem[c])]
    /\ pc' = [pc EXCEPT ![c] = "x_hash"]
    /\ UNCHANGED <<conns, fileHash, request, disk, mem, exportedDocs, importedDocs, byHash, pdfs, idx,
                   res, doc, am, imported, summary, response, handles>>

\* line 82: doc.HashBuffer = doc.HashDoc()
ExportHashDoc(c) ==
    /\ pc[c] = "x_hash"
    /\ calls' = [calls EXCEPT ![c] = Append(@, Call(c, "HashDoc", doc[c], NilMap, 0, TRUE, NoErr))]
    /\ docBuf' = [docBuf EXCEPT ![c].HashBuffer = fileHash[doc[c]]]
    /\ pc' = [pc EXCEPT ![c] = "x_append"]
    /\ UNCHANGED <<conns, fileHash, request, disk, mem, exportedDocs, importedDocs, byHash, pdfs, idx,
                   res, doc, am, imported, summary, response, handles>>

\* line 83: exportedDocs = append(exportedDocs, *doc)
ExportAppend(c) ==
    /\ pc[c] = "x_append"
    /\ exportedDocs' = [exportedDocs EXCEPT ![c] =
                           AppendSlice(@, [File |-> doc[c],
                                           HashBuffer |-> docBuf[c].HashBuffer,
                                           AnnotsBuffer |-> docBuf[c].AnnotsBuffer])]
    /\ pc' = [pc EXCEPT ![c] = "x_close"]
    /\ UNCHANGED <<conns, fileHash, request, disk, mem, docBuf, importedDocs, byHash, pdfs, idx, res,
                   doc, am, imported, summary, response, handles, calls>>

\* line 84 without doc.Close()
ExportClose_Leak(c) ==
    /\ pc[c] = "x_close"
    /\ idx' = [idx EXCEPT ![c] = @ + 1]
    /\ pc' = [pc EXCEPT ![c] = "x_loop"]
    /\ UNCHANGED <<conns, fileHash, request, disk, mem, exportedDocs, docBuf, importedDocs, byHash,
                   pdfs, res, doc, am, imported, summary, response, handles, calls>>

\* line 84: doc.Close(), the end of the loop body
ExportClose(c) ==
    /\ pc[c] = "x_close"
    /\ calls' = [calls EXCEPT ![c] = Append(@, Call(c, "Close", doc[c], NilMap, 0, TRUE, NoErr))]
    /\ handles' = handles \ {<<c, doc[c]>>}
    /\ idx' = [idx EXCEPT ![c] = @ + 1]
    /\ pc' = [pc EXCEPT ![c] = "x_loop"]
    /\ UNCHANGED <<conns, fileHash, request, disk, mem, exportedDocs, docBuf, importedDocs, byHash,
                   pdfs, res, doc, am, imported, summary, response>>

\* line 87: the loop is over
ExportWrite(c) ==
    /\ pc[c] = "x_loop"
    /\ idx[c] > Len(pdfs[c])
    /\ response' = [response EXCEPT ![c] = writeJSON(200, EncodeSlice(exportedDocs[c]))]
    /\ pc' = [pc EXCEPT ![c] = "done"]
    /\ UNCHANGED <<conns, fileHash, request, disk, mem, exportedDocs, docBuf, importedDocs, byHash,
                   pdfs, idx, res, doc, am, imported, summary, handles, calls>>

\* one request to /export
InitExport ==
    InitWith({1}, Trees, [{1} -> ExportRequests], [{1} -> {"x_start"}], Stored)

NextExport ==
    \/ \E c \in conns : ExportCheckMethod(c)
    \/ \E c \in conns : ExportScan(c)
    \/ \E c \in conns : ExportOpen(c)
    \/ \E c \in conns : ExportGetAnnots(c)
    \/ \E c \in conns : ExportHashDoc(c)
    \/ \E c \in conns : ExportAppend(c)
    \/ \E c \in conns : ExportClose(c)
    \/ \E c \in conns : ExportWrite(c)

SpecExport == InitExport /\ [][NextExport]_vars

-----------------------------------------------------------------------------
(* The same payload imported twice, every operation succeeding and the     *)
(* library merging only the records a document does not hold yet           *)

\* the requests to /import that pass the request-level checks
ValidRequests == {r \in Requests : r.method = "POST" /\ r.readable /\ r.valid}

\* lines 121-127, the walk succeeding
ScanOk(c) == ScanWith(c, {NoErr})

\* lines 128-136, document.Open succeeding
OpenOk(c) == OpenWith(c, {NoErr})

\* lines 145-148 and 154, doc.Import merging without error
ImportMerge(c) == ImportWith(c, MergeOutcomes(mem[c], am[c].m))

\* lines 155-159, doc.Save succeeding
SaveOk(c) == SaveWith(c, {o \in SaveOutcomes : o.err = NoErr})

\* the client sends its next request when the ones before it were answered
Arrive(c) ==
    /\ pc[c] = "idle"
    /\ \A d \in conns : d < c => pc[d] = "done"
    /\ pc' = [pc EXCEPT ![c] = "start"]
    /\ UNCHANGED <<conns, fileHash, request, disk, mem, exportedDocs, docBuf, importedDocs, byHash,
                   pdfs, idx, res, doc, am, imported, summary, response, handles, calls>>

\* two requests to /import with one payload, the second sent after the
\* answer to the first
InitTwice ==
    InitWith({1, 2}, Trees, {[c \in {1, 2} |-> r] : r \in ValidRequests},
             {(1 :> "start") @@ (2 :> "idle")}, Stored)

NextTwice ==
    \/ \E c \in conns : Arrive(c)
    \/ \E c \in conns : CheckMethod(c)
    \/ \E c \in conns : ReadBody(c)
    \/ \E c \in conns : Unmarshal(c)
    \/ \E c \in conns : AggregateDocs(c)
    \/ \E c \in conns : ScanOk(c)
    \/ \E c \in conns : OpenOk(c)
    \/ \E c \in conns : HashDoc(c)
    \/ \E c \in conns : CloseUnmatched(c)
    \/ \E c \in conns : ImportMerge(c)
    \/ \E c \in conns : SaveOk(c)
    \/ \E c \in conns : CloseMerged(c)
    \/ \E c \in conns : WriteSummary(c)

SpecTwice == InitTwice /\ [][NextTwice]_vars

-----------------------------------------------------------------------------
(* Two requests to /import served at once: net/http runs the handler of    *)
(* each connection in a goroutine of its own, and serve.go holds no lock   *)

\* the payloads of the two requests: at most one summary each
RaceRequests == {r \in ValidRequests : Len(r.docs) <= 1}

\* lines 186-192: both requests have arrived
InitRace ==
    InitWith({1, 2}, Trees, [{1, 2} -> RaceRequests], [{1, 2} -> {"start"}], {<<>>})

\* the next step of the handler of conn c
HandlerStep(c) ==
    \/ CheckMethod(c)
    \/ ReadBody(c)
    \/ Unmarshal(c)
    \/ AggregateDocs(c)
    \/ ScanOk(c)
    \/ OpenOk(c)
    \/ HashDoc(c)
    \/ CloseUnmatched(c)
    \/ ImportMerge(c)
    \/ SaveOk(c)
    \/ CloseMerged(c)
    \/ WriteSummary(c)

NextRace ==
    \/ \E c \in conns : CheckMethod(c)
    \/ \E c \in conns : ReadBody(c)
    \/ \E c \in conns : Unmarshal(c)
    \/ \E c \in conns : AggregateDocs(c)
    \/ \E c \in conns : ScanOk(c)
    \/ \E c \in conns : OpenOk(c)
    \/ \E c \in conns : HashDoc(c)
    \/ \E c \in conns : CloseUnmatched(c)
    \/ \E c \in conns : ImportMerge(c)
    \/ \E c \in conns : SaveOk(c)
    \/ \E c \in conns : CloseMerged(c)
    \/ \E c \in conns : WriteSummary(c)

SpecRace == InitRace /\ [][NextRace]_vars

-----------------------------------------------------------------------------
(* The server with both routes: a request is dispatched to either handler   *)

\* the requests with at most one summary in the body
ServeRequests == {r \in Requests : Len(r.docs) <= 1}

\* lines 186-187: one request, to /import or to /export
InitServe ==
    InitWith({1}, Trees, [{1} -> ServeRequests], [{1} -> {"start", "x_start"}], Stored)

NextServe ==
    \/ \E c \in conns : CheckMethod(c)
    \/ \E c \in conns : ReadBody(c)
    \/ \E c \in conns : Unmarshal(c)
    \/ \E c \in conns : AggregateDocs(c)
    \/ \E c \in conns : Scan(c)
    \/ \E c \in conns : OpenDoc(c)
    \/ \E c \in conns : HashDoc(c)
    \/ \E c \in conns : CloseUnmatched(c)
    \/ \E c \in conns : ImportDoc(c)
    \/ \E c \in conns : CloseFailed(c)
    \/ \E c \in conns : SaveDoc(c)
    \/ \E c \in conns : CloseMerged(c)
    \/ \E c \in conns : WriteSummary(c)
    \/ \E c \in conns : ExportCheckMethod(c)
    \/ \E c \in conns : ExportScan(c)
    \/ \E c \in conns : ExportOpen(c)
    \/ \E c \in conns : ExportGetAnnots(c)
    \/ \E c \in conns : ExportHashDoc(c)
    \/ \E c \in conns : ExportAppend(c)
    \/ \E c \in conns : ExportClose(c)
    \/ \E c \in conns : ExportWrite(c)

SpecServe == InitServe /\ [][NextServe]_vars

-----------------------------------------------------------------------------
TypeOK ==
    /\ \A c \in conns :
         /\ pc[c] \in {"start", "read", "parse", "aggregate", "scan", "loop", "hash",
                       "close141", "import", "close149", "save", "close162", "done",
                       "x_start", "x_scan", "x_loop", "x_annots", "x_hash", "x_append",
                       "x_close", "idle"}
         /\ summary[c].TotalImported \in Nat
    /\ handles \subseteq conns \X Paths


-----------------------------------------------------------------------------
(* Operators used to state the properties *)

RECURSIVE SumSeq(_)
SumSeq(s) == IF s = <<>> THEN 0 ELSE s[1] + SumSeq(Tail(s))

\* the summary a finished request returned with status 200
Returned(c) == response[c].status = 200 /\ response[c].hasJSON

\* sum of importedCount over all outcomes of a files list
SumImported(files) == SumSeq([i \in 1..Len(files) |-> files[i].Imported])

\* the same sum, over the outcomes that carry the merge error
SumMergeFailed(files) ==
    SumSeq([i \in 1..Len(files) |->
               IF files[i].Error = ErrorText("ErrMerge") THEN files[i].Imported ELSE 0])

\* the i-th logged call is conn c invoking op on path p
IsCall(i, c, op, p) ==
    calls[c][i].conn = c /\ calls[c][i].op = op /\ calls[c][i].path = p

\* the operations conn c invoked on path p, in order
RECURSIVE OpsOn(_, _, _)
OpsOn(c, p, n) ==
    IF n = 0 THEN <<>>
    ELSE IF calls[c][n].conn = c /\ calls[c][n].path = p
         THEN Append(OpsOn(c, p, n - 1), calls[c][n].op)
         ELSE OpsOn(c, p, n - 1)

\* paths that occur in the files list
Reported(files) == {files[i].File : i \in 1..Len(files)}

-----------------------------------------------------------------------------
\* C1 (as stated): after an import that returns 200, totalImported equals the
\* sum of importedCount over all outcomes of the files list, those carrying a
\* merge error included.
C1_TotalIsSumOfAllOutcomes ==
    \A c \in conns :
        Returned(c) =>
            response[c].json.TotalImported = SumImported(response[c].json.Files)

\* C1 (amended): after an import that returns 200, totalImported equals the
\* sum of importedCount over the outcomes of the files list that do not carry
\* a merge error; the count recorded with a merge error is listed, not added.
C1_TotalIsSumOfUnfailedMerges ==
    \A c \in conns :
        Returned(c) =>
            response[c].json.TotalImported
                = SumImported(response[c].json.Files)
                  - SumMergeFailed(response[c].json.Files)

\* a 200 summary listing a merge error with a positive count next to a merge
\* that succeeded with a positive count
C1_Witness ==
    \E c \in conns :
        /\ Returned(c)
        /\ \E i, j \in 1..Len(response[c].json.Files) :
              LET f == response[c].json.Files[i]
                  g == response[c].json.Files[j]
              IN /\ f.Error = ErrorText("ErrMerge") /\ f.Imported > 0
                 /\ g.Error # ErrorText("ErrMerge") /\ g.Imported > 0


-----------------------------------------------------------------------------
\* the handler of conn c has run the aggregation loop (lines 108-119)
Aggregated(c) ==
    pc[c] \in {"scan", "loop", "hash", "close141", "import", "close149", "save",
               "close162"}
    \/ (pc[c] = "done" /\ response[c].status \in {200, 500})

\* every summary of the body has an empty or an absent annotation mapping
OnlyEmptyAnnotations(c) ==
    \A i \in 1..Len(request[c].docs) :
        ~request[c].docs[i].hasAnnots \/ request[c].docs[i].annots = <<>>

\* C2 (as stated): when every summary of the payload has an empty or an
\* absent annotation mapping, the aggregated mapping has no entry for any
\* hash, and no local document is merged or reported.
C2_EmptyAnnotationsAggregateToNothing ==
    \A c \in conns :
        (Aggregated(c) /\ OnlyEmptyAnnotations(c)) =>
            /\ DOMAIN byHash[c] = {}
            /\ summary[c].Files = <<>>
            /\ \A i \in 1..Len(calls[c]) : calls[c][i].conn = c => calls[c][i].op # "Import"

-----------------------------------------------------------------------------
\* the local documents conn c has opened and found without aggregated entry
Unmatched(c) ==
    {p \in Paths :
        /\ fileHash[p] \notin DOMAIN byHash[c]
        /\ \E i \in 1..Len(calls[c]) : IsCall(i, c, "HashDoc", p)}

\* C3: a local document that opens and whose content hash has no aggregated
\* entry is never in the files list, is never merged or persisted (it is only
\* opened, hashed and closed), and totalImported holds nothing beyond the
\* counts of the reported documents.
C3_UnmatchedDocumentUntouched ==
    \A c \in conns :
        /\ pc[c] = "close141" =>
              /\ fileHash[doc[c]] \notin DOMAIN byHash[c]
              /\ res[c] = NewResult(doc[c])
        /\ pc[c] \in {"import", "close149", "save", "close162"} =>
              fileHash[doc[c]] \in DOMAIN byHash[c]
        /\ Returned(c) =>
              /\ response[c].json = summary[c]
              /\ summary[c].TotalImported <= SumImported(summary[c].Files)
              /\ \A p \in Unmatched(c) :
                    /\ p \notin Reported(summary[c].Files)
                    /\ OpsOn(c, p, Len(calls[c])) = <<"Open", "HashDoc", "Close">>

\* a 200 summary of a run in which one document was unmatched and closed and
\* another was merged with a positive count
C3_Witness ==
    \E c \in conns :
        /\ Returned(c)
        /\ response[c].json.TotalImported > 0
        /\ \E p \in Unmatched(c) : OpsOn(c, p, Len(calls[c])) = <<"Open", "HashDoc", "Close">>

-----------------------------------------------------------------------------
\* the documents conn c holds open
OpenBy(c) == {p \in Paths : <<c, p>> \in handles}

\* C4: every document the handler opened is closed when it moves on to the
\* next file, and none is open when the response is written.
C4_OpenedDocumentsAreClosed ==
    \A c \in conns :
        /\ pc[c] \in {"loop", "done"} => OpenBy(c) = {}
        /\ response[c] # NoResponse => OpenBy(c) = {}
        /\ pc[c] \in {"hash", "close141", "import", "close149", "save", "close162"}
              => OpenBy(c) = {pdfs[c][idx[c]]}
        /\ Returned(c) =>
              \A i \in 1..Len(calls[c]) :
                  (calls[c][i].conn = c /\ calls[c][i].op = "Open" /\ calls[c][i].ok) =>
                      \E j \in (i + 1)..Len(calls[c]) : IsCall(j, c, "Close", calls[c][i].path)

\* a finished run whose two documents were closed after a merge error and
\* after a persist error
C4_Witness ==
    \E c \in conns :
        /\ Returned(c)
        /\ OpenBy(c) = {}
        /\ \E i, j \in 1..Len(calls[c]) :
              /\ calls[c][i].op = "Import" /\ calls[c][i].err # NoErr
              /\ calls[c][j].op = "Save" /\ calls[c][j].err # NoErr
        /\ Cardinality({i \in 1..Len(calls[c]) : calls[c][i].op = "Close"}) = 2


-----------------------------------------------------------------------------
\* the payload with the path of every summary replaced by one path
ErasePaths(ds) == [i \in 1..Len(ds) |-> [ds[i] EXCEPT !.File = "x.pdf"]]

\* the summaries of the payload that carry hash h
OfHash(ds, h) ==
    LET Own(d) == d.HashBuffer = h
    IN SelectSeq(ds, Own)

\* C5: matching depends on the content hash only.  The aggregated mapping is
\* the one of the payload with its paths erased, so payloads that differ in
\* paths only are aggregated alike; a local document is merged exactly when
\* its own hash has an entry, and what the merge is offered is that entry,
\* built from the summaries carrying that hash and from no other.
C5_MatchingByContentHashOnly ==
    \A c \in conns :
        /\ pc[c] = "scan" => byHash[c] = Aggregate(ErasePaths(importedDocs[c]))
        /\ pc[c] = "import" =>
              LET h == fileHash[doc[c]]
              IN /\ am[c] = MkMap(byHash[c][h])
                 /\ am[c].m = Aggregate(OfHash(ErasePaths(importedDocs[c]), h))[h]
        /\ Returned(c) =>
              \A i \in 1..Len(calls[c]) :
                  /\ (calls[c][i].conn = c /\ calls[c][i].op = "Import") =>
                        /\ fileHash[calls[c][i].path] \in DOMAIN byHash[c]
                        /\ calls[c][i].am = MkMap(byHash[c][fileHash[calls[c][i].path]])
                  /\ (/\ calls[c][i].conn = c /\ calls[c][i].op = "HashDoc"
                      /\ fileHash[calls[c][i].path] \in DOMAIN byHash[c]) =>
                        \E j \in (i + 1)..Len(calls[c]) : IsCall(j, c, "Import", calls[c][i].path)

\* a merge was offered records while the payload also held records for
\* another hash, under another path
C5_Witness ==
    \E c \in conns : \E i \in 1..Len(calls[c]) :
        /\ Returned(c)
        /\ calls[c][i].conn = c /\ calls[c][i].op = "Import"
        /\ Records(calls[c][i].am.m) > 0
        /\ \E j, k \in 1..Len(importedDocs[c]) :
              /\ importedDocs[c][j].HashBuffer = fileHash[calls[c][i].path]
              /\ importedDocs[c][k].HashBuffer \notin {"", fileHash[calls[c][i].path]}
              /\ importedDocs[c][k].File # importedDocs[c][j].File
              /\ ~importedDocs[c][k].AnnotsBuffer.isNil
              /\ importedDocs[c][k].AnnotsBuffer.m # <<>>

-----------------------------------------------------------------------------
\* the page-p sequences of the first n summaries that carry hash h and are
\* not skipped (a hash, and an annotation mapping that is present),
\* concatenated in payload order
RECURSIVE ConcatInOrder(_, _, _, _)
ConcatInOrder(ds, h, page, n) ==
    IF n = 0 THEN <<>>
    ELSE LET d == ds[n]
             part == IF /\ d.HashBuffer # "" /\ d.HashBuffer = h
                        /\ ~d.AnnotsBuffer.isNil
                        /\ page \in DOMAIN d.AnnotsBuffer.m
                     THEN d.AnnotsBuffer.m[page] ELSE <<>>
         IN ConcatInOrder(ds, h, page, n - 1) \o part

\* the aggregated sequence for (h, page); empty when there is none
Entry(m, h, page) ==
    IF h \in DOMAIN m /\ page \in DOMAIN m[h] THEN m[h][page] ELSE <<>>

\* C6: the aggregated sequence for (hash, page) is the concatenation, in
\* payload order, of the page sequences of the non-skipped summaries with
\* that hash, without deduplication or reordering; two summaries sharing a
\* hash and a page give a sequence of the sum of their lengths, and ["h1"]
\* then ["h2"] give ["h1", "h2"].
C6_AggregateConcatenatesInOrder ==
    \A c \in conns :
        pc[c] = "scan" =>
            LET ds == importedDocs[c]
            IN /\ \A h \in {"", "abc", "def"}, page \in {1, 2} :
                     Entry(byHash[c], h, page) = ConcatInOrder(ds, h, page, Len(ds))
               /\ \A page \in {1, 2} :
                     (/\ Len(ds) = 2
                      /\ ds[1].HashBuffer = ds[2].HashBuffer /\ ds[1].HashBuffer # ""
                      /\ ~ds[1].AnnotsBuffer.isNil /\ ~ds[2].AnnotsBuffer.isNil
                      /\ page \in DOMAIN ds[1].AnnotsBuffer.m
                      /\ page \in DOMAIN ds[2].AnnotsBuffer.m)
                        => Len(byHash[c][ds[1].HashBuffer][page])
                              = Len(ds[1].AnnotsBuffer.m[page])
                                + Len(ds[2].AnnotsBuffer.m[page])
               /\ (/\ Len(ds) = 2
                   /\ ds[1].HashBuffer = "abc" /\ ds[1].AnnotsBuffer = MkMap(1 :> <<"h1">>)
                   /\ ds[2].HashBuffer = "abc" /\ ds[2].AnnotsBuffer = MkMap(1 :> <<"h2">>))
                     => byHash[c]["abc"][1] = <<"h1", "h2">>

\* the payload of the scenario, aggregated: page 1 lists ["h1"] then ["h2"]
\* under one hash
C6_Witness ==
    \E c \in conns :
        /\ pc[c] = "scan"
        /\ Len(importedDocs[c]) = 2
        /\ importedDocs[c][1].HashBuffer = "abc"
        /\ importedDocs[c][1].AnnotsBuffer = MkMap(1 :> <<"h1">>)
        /\ importedDocs[c][2].HashBuffer = "abc"
        /\ importedDocs[c][2].AnnotsBuffer = MkMap(1 :> <<"h2">>)
        /\ byHash[c] = ("abc" :> (1 :> <<"h1", "h2">>))

-----------------------------------------------------------------------------
\* C7: persist is invoked on a matched document exactly when its merge
\* returned a positive count and no error; an outcome's saved flag is true
\* only if persist was invoked on the document and reported success, and is
\* false when persist was not invoked.
C7_PersistOnlyAfterCleanPositiveMerge ==
    \A c \in conns :
        /\ pc[c] = "save" => imported[c] > 0 /\ res[c].Error = ""
        /\ Returned(c) =>
              /\ \A i \in 1..Len(calls[c]) :
                    /\ (calls[c][i].conn = c /\ calls[c][i].op = "Save") =>
                          /\ \E j \in 1..(i - 1) :
                                /\ IsCall(j, c, "Import", calls[c][i].path)
                                /\ calls[c][j].n > 0 /\ calls[c][j].err = NoErr
                          /\ \A j \in 1..Len(calls[c]) :
                                IsCall(j, c, "Save", calls[c][i].path) => j = i
                    /\ (/\ calls[c][i].conn = c /\ calls[c][i].op = "Import"
                        /\ calls[c][i].n > 0 /\ calls[c][i].err = NoErr) =>
                          \E j \in (i + 1)..Len(calls[c]) : IsCall(j, c, "Save", calls[c][i].path)
              /\ \A k \in 1..Len(summary[c].Files) :
                    summary[c].Files[k].Saved
                       <=> \E i \in 1..Len(calls[c]) :
                              IsCall(i, c, "Save", summary[c].Files[k].File) /\ calls[c][i].ok

\* a finished run with one document persisted and saved, and one merged with
\* count 0 and not persisted
C7_Witness ==
    \E c \in conns : \E p, q \in Paths :
        /\ Returned(c)
        /\ \E i \in 1..Len(calls[c]) : IsCall(i, c, "Save", p) /\ calls[c][i].ok
        /\ \E k \in 1..Len(summary[c].Files) :
              summary[c].Files[k].File = p /\ summary[c].Files[k].Saved
        /\ \E i \in 1..Len(calls[c]) :
              IsCall(i, c, "Import", q) /\ calls[c][i].n = 0 /\ calls[c][i].err = NoErr
        /\ \A i \in 1..Len(calls[c]) : ~IsCall(i, c, "Save", q)

-----------------------------------------------------------------------------
\* the persist of conn c on path p reported an error
PersistFailed(c, p) ==
    \E i \in 1..Len(calls[c]) : IsCall(i, c, "Save", p) /\ calls[c][i].err # NoErr

\* C8: when the merge of a matched document succeeds with a positive count n
\* and the persist fails, the outcome has importedCount n, saved false and the
\* persist error, the n records are in totalImported, and the batch goes on
\* with the next file.
C8_PersistFailureKeepsCount ==
    \A c \in conns :
        /\ (pc[c] = "close162" /\ res[c].Error = ErrorText("ErrSave")) =>
              /\ res[c].Imported = imported[c] /\ imported[c] > 0
              /\ res[c].Saved = FALSE
        /\ Returned(c) =>
              /\ \A k \in 1..Len(summary[c].Files) :
                    LET f == summary[c].Files[k]
                    IN PersistFailed(c, f.File) =>
                          /\ \E i \in 1..Len(calls[c]) :
                                /\ IsCall(i, c, "Import", f.File)
                                /\ calls[c][i].err = NoErr /\ calls[c][i].n > 0
                                /\ f.Imported = calls[c][i].n
                          /\ f.Saved = FALSE
                          /\ f.Error = ErrorText("ErrSave")
                          /\ \A q \in Paths : \E i \in 1..Len(calls[c]) : IsCall(i, c, "Open", q)
              /\ summary[c].TotalImported
                    >= SumSeq([k \in 1..Len(summary[c].Files) |->
                                  IF PersistFailed(c, summary[c].Files[k].File)
                                  THEN summary[c].Files[k].Imported ELSE 0])

\* a 200 summary whose first outcome is a persist failure with a positive
\* count, followed by the outcome of the next file
C8_Witness ==
    \E c \in conns :
        /\ Returned(c)
        /\ Len(summary[c].Files) = 2
        /\ PersistFailed(c, summary[c].Files[1].File)
        /\ summary[c].Files[1].Imported > 0
        /\ summary[c].TotalImported >= summary[c].Files[1].Imported

-----------------------------------------------------------------------------
\* sum of the counts returned by the merges of conn c that reported no error
MergedWithoutError(c) ==
    SumSeq([i \in 1..Len(calls[c]) |->
               IF calls[c][i].conn = c /\ calls[c][i].op = "Import" /\ calls[c][i].err = NoErr
               THEN calls[c][i].n ELSE 0])

\* C9: totalImported is the sum of importedCount over exactly the files whose
\* merge returned no error: a merge error contributes nothing even with a
\* positive recorded count, a persist failure still contributes its count.
C9_TotalCountsMergesWithoutError ==
    \A c \in conns :
        Returned(c) =>
            /\ response[c].json.TotalImported = MergedWithoutError(c)
            /\ \A k \in 1..Len(response[c].json.Files) :
                  LET f == response[c].json.Files[k]
                  IN \A i \in 1..Len(calls[c]) :
                        IsCall(i, c, "Import", f.File) => f.Imported = calls[c][i].n

\* a 200 summary after a merge error with a positive count and a persist
\* failure with a positive count
C9_Witness ==
    \E c \in conns :
        /\ Returned(c)
        /\ \E i \in 1..Len(calls[c]) :
              calls[c][i].op = "Import" /\ calls[c][i].err # NoErr /\ calls[c][i].n > 0
        /\ \E i \in 1..Len(calls[c]) : calls[c][i].op = "Save" /\ calls[c][i].err # NoErr
        /\ response[c].json.TotalImported > 0

-----------------------------------------------------------------------------
\* C10: a request-level failure aborts before any document is touched: a body
\* that is not valid JSON is answered 400 with "invalid json" in the body, a
\* scan failure 500, a method other than POST 405, and then no document is
\* opened, merged, persisted or closed and no JSON summary is written.
C10_RequestFailureTouchesNothing ==
    \A c \in conns :
        /\ (pc[c] = "done" /\ request[c].method # "POST") => response[c].status = 405
        /\ (pc[c] = "done" /\ request[c].method = "POST" /\ request[c].readable
            /\ ~request[c].valid)
              => /\ response[c].status = 400
                 /\ \E t \in 1..Len(response[c].text) : response[c].text[t] = "invalid json"
        /\ (pc[c] = "done" /\ request[c].method = "POST" /\ request[c].readable
            /\ request[c].valid /\ pdfs[c] # scanPDFs)
              => response[c].status = 500
        /\ pc[c] = "done" => response[c].status \in {200, 400, 405, 500}
        /\ response[c].status \in {400, 405, 500} =>
              /\ pc[c] = "done"
              /\ calls[c] = <<>>
              /\ OpenBy(c) = {}
              /\ ~response[c].hasJSON
              /\ summary[c].Files = <<>>

\* the answer to a body that is not JSON
C10_Witness ==
    \E c \in conns :
        /\ pc[c] = "done"
        /\ ~request[c].valid
        /\ response[c].status = 400
        /\ response[c].text[1] = "invalid json"

-----------------------------------------------------------------------------
\* an export that was answered 200
Exported(c) == pc[c] = "done" /\ response[c].status = 200 /\ response[c].hasJSON

\* the paths conn c opened successfully, in the order of the calls
RECURSIVE OpenedUpTo(_, _)
OpenedUpTo(c, n) ==
    IF n = 0 THEN <<>>
    ELSE IF calls[c][n].op = "Open" /\ calls[c][n].ok
         THEN Append(OpenedUpTo(c, n - 1), calls[c][n].path)
         ELSE OpenedUpTo(c, n - 1)

Opened(c) == OpenedUpTo(c, Len(calls[c]))

\* C11 (as stated): an export in which the scan finds no document that opens
\* is answered 200 with the empty JSON array [] as body, not with null.
C11_EmptyExportIsEmptyArray ==
    \A c \in conns :
        (Exported(c) /\ Opened(c) = <<>>) =>
            response[c].json = [kind |-> "array", elems |-> <<>>]

-----------------------------------------------------------------------------
\* conn c invoked no persist
NoSave(c) == \A i \in 1..Len(calls[c]) : calls[c][i].op # "Save"

\* C12: with a library that counts only the records a document does not hold
\* yet, a content hash that persisted annotations do not change and every
\* operation succeeding, the same payload imported a second time against the
\* same tree reports importedCount 0 for every file, totalImported 0, and
\* invokes no persist.
C12_SecondImportAppliesNothing ==
    \A c \in conns :
        (c > 1 /\ Returned(c)) =>
            /\ request[c] = request[1] /\ Returned(1)
            /\ \A k \in 1..Len(response[c].json.Files) :
                   response[c].json.Files[k].Imported = 0
            /\ response[c].json.TotalImported = 0
            /\ NoSave(c)
            /\ Reported(response[c].json.Files) = Reported(response[1].json.Files)

\* the second import has answered after a first one that applied records to
\* a document and persisted it
C12_Witness ==
    \E c \in conns :
        /\ c > 1 /\ Returned(c)
        /\ response[1].json.TotalImported > 0
        /\ ~NoSave(1)
        /\ Len(response[c].json.Files) > 0
        /\ \E p \in Paths : disk[p] # <<>>

-----------------------------------------------------------------------------
\* the paths of the calls of conn c to op, in the order of the calls
RECURSIVE PathsOf(_, _, _)
PathsOf(c, op, n) ==
    IF n = 0 THEN <<>>
    ELSE IF calls[c][n].op = op
         THEN Append(PathsOf(c, op, n - 1), calls[c][n].path)
         ELSE PathsOf(c, op, n - 1)

\* the handler of conn c is in the loop over the scanned paths
InLoop(c) ==
    pc[c] \in {"loop", "hash", "close141", "import", "close149", "save", "close162"}

\* C13: per-file failures never abort an import batch.  Once the scan has
\* succeeded the request can only end with the 200 summary, and the loop
\* always has a next step; in a finished run every scanned path was opened
\* exactly once in scan order, every document that opened and matched an
\* aggregated hash was merged exactly once, and a file that failed to open
\* has an outcome with the error message, importedCount 0 and saved false.
C13_FileFailuresDoNotAbortBatch ==
    \A c \in conns :
        /\ InLoop(c) => /\ pdfs[c] = scanPDFs
                        /\ idx[c] \in 1..(Len(pdfs[c]) + 1)
                        /\ response[c] = NoResponse
        /\ pc[c] = "loop" => ENABLED (OpenDoc(c) \/ WriteSummary(c))
        /\ (pc[c] = "done" /\ pdfs[c] = scanPDFs) => Returned(c)
        /\ Returned(c) =>
              /\ PathsOf(c, "Open", Len(calls[c])) = pdfs[c]
              /\ \A i \in 1..Len(calls[c]) :
                    /\ (/\ calls[c][i].op = "HashDoc"
                        /\ fileHash[calls[c][i].path] \in DOMAIN byHash[c]) =>
                          Cardinality({j \in 1..Len(calls[c]) :
                                          IsCall(j, c, "Import", calls[c][i].path)}) = 1
                    /\ (calls[c][i].op = "Open" /\ ~calls[c][i].ok) =>
                          \E k \in 1..Len(summary[c].Files) :
                              summary[c].Files[k]
                                 = [File |-> calls[c][i].path, Imported |-> 0,
                                    Saved |-> FALSE, Error |-> ErrorText("ErrOpen")]

\* a 200 summary of a run whose first file failed (to open, to merge or to
\* persist) and whose last file was merged
C13_Witness ==
    \E c \in conns :
        /\ Returned(c)
        /\ Len(summary[c].Files) > 0
        /\ summary[c].Files[1].File = pdfs[c][1]
        /\ summary[c].Files[1].Error # ""
        /\ \E i \in 1..Len(calls[c]) : IsCall(i, c, "Import", pdfs[c][Len(pdfs[c])])

-----------------------------------------------------------------------------
\* C14: when the merge of a matched document returns a count together with
\* an error, the outcome records that count as importedCount, the message of
\* the merge error and saved false, and persist is not attempted for that
\* document.
C14_MergeErrorKeepsCount ==
    \A c \in conns :
        /\ pc[c] = "close149" =>
              res[c] = [File |-> doc[c], Imported |-> imported[c], Saved |-> FALSE,
                        Error |-> ErrorText("ErrMerge")]
        /\ Returned(c) =>
              \A i \in 1..Len(calls[c]) :
                  (calls[c][i].op = "Import" /\ calls[c][i].err # NoErr) =>
                      /\ \E k \in 1..Len(summary[c].Files) :
                            summary[c].Files[k]
                               = [File |-> calls[c][i].path, Imported |-> calls[c][i].n,
                                  Saved |-> FALSE, Error |-> ErrorText(calls[c][i].err)]
                      /\ \A j \in 1..Len(calls[c]) : ~IsCall(j, c, "Save", calls[c][i].path)

\* a 200 summary after a merge that returned a positive count with an error
C14_Witness ==
    \E c \in conns :
        /\ Returned(c)
        /\ \E k \in 1..Len(summary[c].Files) :
              /\ summary[c].Files[k].Imported > 0
              /\ summary[c].Files[k].Error = ErrorText("ErrMerge")

-----------------------------------------------------------------------------
\* the position of path p in the scan of conn c
Pos(c, p) == CHOOSE i \in 1..Len(pdfs[c]) : pdfs[c][i] = p

\* C16: the files list of an import summary is a subsequence of the scan
\* order: the outcomes are in the order their paths were scanned, each
\* scanned path occurs at most once, and the scanned paths that are missing
\* are exactly those of the documents that opened but matched no aggregated
\* hash.
C16_FilesFollowScanOrder ==
    \A c \in conns :
        Returned(c) =>
            LET files == response[c].json.Files
            IN /\ \A k \in 1..Len(files) : \E i \in 1..Len(pdfs[c]) : pdfs[c][i] = files[k].File
               /\ \A k \in 1..(Len(files) - 1) :
                     Pos(c, files[k].File) < Pos(c, files[k + 1].File)
               /\ {pdfs[c][i] : i \in 1..Len(pdfs[c])} \ Reported(files) = Unmatched(c)

\* a 200 summary that reports a scanned path while a path scanned before it
\* is missing, its document being unmatched
C16_Witness ==
    \E c \in conns :
        /\ Returned(c)
        /\ \E k \in 1..Len(response[c].json.Files) : \E p \in Unmatched(c) :
              Pos(c, p) < Pos(c, response[c].json.Files[k].File)

-----------------------------------------------------------------------------
\* the summary export builds for path p
SummaryOf(p) ==
    [File |-> p, HashBuffer |-> fileHash[p], AnnotsBuffer |-> MkMap(disk[p])]

\* C15: export is best-effort and read-only.  The exported sequence holds
\* one summary for each scanned document that opened, in scan order, with
\* the document's content hash and its current annotation mapping; a
\* document that fails to open is omitted, the batch goes on and the status
\* stays 200; export never invokes merge or persist.
C15_ExportBestEffortReadOnly ==
    \A c \in conns :
        /\ pc[c] \in {"x_loop", "x_annots", "x_hash", "x_append", "x_close"} =>
              /\ pdfs[c] = scanPDFs
              /\ idx[c] \in 1..(Len(pdfs[c]) + 1)
              /\ response[c] = NoResponse
        /\ pc[c] = "x_loop" => ENABLED (ExportOpen(c) \/ ExportWrite(c))
        /\ (pc[c] = "done" /\ pdfs[c] = scanPDFs) => Exported(c)
        /\ Exported(c) =>
              /\ PathsOf(c, "Open", Len(calls[c])) = pdfs[c]
              /\ response[c].json.elems = exportedDocs[c].elems
              /\ exportedDocs[c].elems
                    = [i \in 1..Len(Opened(c)) |-> SummaryOf(Opened(c)[i])]
              /\ \A i \in 1..Len(calls[c]) : calls[c][i].op \notin {"Import", "Save"}

\* a 200 export of a tree in which one document failed to open and another,
\* holding annotations, was exported
C15_Witness ==
    \E c \in conns :
        /\ Exported(c)
        /\ Len(Opened(c)) = Len(pdfs[c]) - 1
        /\ Len(response[c].json.elems) > 0
        /\ \E i \in 1..Len(response[c].json.elems) :
              response[c].json.elems[i].AnnotsBuffer.m # <<>>

-----------------------------------------------------------------------------
\* the handler of conn c is between two iterations of its loop, or past it
BetweenFiles(c) == pc[c] \in {"loop", "x_loop", "done"}

\* the request of conn c was answered after its loop over the files
LoopDone(c) == pc[c] = "done" /\ response[c].status = 200

\* C17: within one export or import request the documents are processed one
\* after the other: at every point of the run at most one document is open,
\* and a document is closed before the next path is opened.
C17_OneDocumentAtATime ==
    \A c \in conns :
        /\ Cardinality(OpenBy(c)) <= 1
        /\ BetweenFiles(c) => OpenBy(c) = {}
        /\ OpenBy(c) # {} => OpenBy(c) = {doc[c]} /\ doc[c] = pdfs[c][idx[c]]
        /\ LoopDone(c) =>
              \A i, j \in 1..Len(calls[c]) :
                  (i < j /\ calls[c][i].op = "Open" /\ calls[c][i].ok
                   /\ calls[c][j].op = "Open") =>
                      \E k \in (i + 1)..(j - 1) : IsCall(k, c, "Close", calls[c][i].path)

\* a handler has opened and closed one document and holds the next one open
C17_Witness ==
    \E c \in conns :
        /\ pc[c] \in {"x_close", "close162"} /\ idx[c] > 1 /\ OpenBy(c) = {doc[c]}
        /\ \E i \in 1..Len(calls[c]) : calls[c][i].op = "Close" /\ calls[c][i].path # doc[c]

-----------------------------------------------------------------------------
\* C19: in both handlers every document that opened is closed exactly once,
\* and no operation of the library (annotation extraction, hashing, merge,
\* persist) is invoked on a document after it was closed or on a document
\* whose open failed.
C19_ClosedOnceAndNotUsedAfter ==
    \A c \in conns :
        /\ pc[c] \in {"hash", "close141", "import", "close149", "save", "close162",
                      "x_annots", "x_hash", "x_append", "x_close"} =>
              <<c, doc[c]>> \in handles
        /\ LoopDone(c) =>
            \A i \in 1..Len(calls[c]) :
                LET p == calls[c][i].path
                    Later(op) == {j \in (i + 1)..Len(calls[c]) : IsCall(j, c, op, p)}
                IN /\ (calls[c][i].op = "Open" /\ calls[c][i].ok) =>
                         Cardinality(Later("Close")) = 1
                   /\ (calls[c][i].op = "Open" /\ ~calls[c][i].ok) =>
                         \A j \in 1..Len(calls[c]) : calls[c][j].path = p => j = i
                   /\ calls[c][i].op = "Close" =>
                         /\ \A j \in (i + 1)..Len(calls[c]) : calls[c][j].path # p
                         /\ \E j \in 1..(i - 1) : IsCall(j, c, "Open", p) /\ calls[c][j].ok
                   /\ calls[c][i].op \in {"GetAnnotsBuffer", "HashDoc", "Import", "Save"} =>
                         /\ \E j \in 1..(i - 1) : IsCall(j, c, "Open", p) /\ calls[c][j].ok
                         /\ Later("Close") # {}

\* a finished request in which one document failed to open and another was
\* opened, used and closed
C19_Witness ==
    \E c \in conns :
        /\ LoopDone(c)
        /\ \E i \in 1..Len(calls[c]) : calls[c][i].op = "Open" /\ ~calls[c][i].ok
        /\ \E i, j \in 1..Len(calls[c]) :
              /\ i < j
              /\ calls[c][i].op \in {"GetAnnotsBuffer", "Save"}
              /\ IsCall(j, c, "Close", calls[c][i].path)

-----------------------------------------------------------------------------
\* conn c has persisted the document it still holds open
JustSaved(c) ==
    /\ pc[c] = "close162" /\ res[c].Saved
    /\ <<c, doc[c]>> \in handles
    /\ calls[c][Len(calls[c])].op = "Save" /\ calls[c][Len(calls[c])].path = doc[c]

\* C18: concurrent import requests against the same directory are not
\* mutually excluded: whatever the other request holds open or has written,
\* a handler that has not answered can take its next step, so both can hold
\* the same file open at once and both persist it.
C18_ImportsNotMutuallyExcluded ==
    \A c \in conns :
        /\ pc[c] # "done" => ENABLED HandlerStep(c)
        /\ \A d \in conns \ {c} :
              (pc[c] = "loop" /\ idx[c] <= Len(pdfs[c]) /\ <<d, pdfs[c][idx[c]]>> \in handles)
                 => ENABLED OpenOk(c)
        /\ \A d \in conns \ {c} :
              (pc[c] = "save" /\ <<d, doc[c]>> \in handles) => ENABLED SaveOk(c)

\* both requests hold the same file open and both have persisted it, each
\* after merging the same records into the content it read before either
\* write: each counted all of them as new
C18_Witness ==
    \E c, d \in conns :
        /\ c # d
        /\ JustSaved(c) /\ JustSaved(d)
        /\ doc[c] = doc[d]
        /\ am[c] = am[d]
        /\ imported[c] = Records(am[c].m) /\ imported[d] = Records(am[d].m)
        /\ imported[c] > 0

====
